---------------------------- MODULE Spec2Model ----------------------------
(***************************************************************************)
(* Model of src/color.rs: the Component normalization (to_f64 / from_f64)  *)
(* for f32 and the unsigned integer storage types, and the RGB <-> RYB     *)
(* conversions Ryb::new_rgb and Ryb::rgb, together with Ryb::new and mix.  *)
(*                                                                         *)
(* The arithmetic of color.rs is IEEE-754 binary64 (f64).  TLC integers    *)
(* are 32 bits wide, so the model carries its own arithmetic: natural      *)
(* numbers are little-endian sequences of 15-bit limbs, and a float is a   *)
(* record [k, s, m, e] of kind, sign, 53-bit significand and exponent,     *)
(* with round-to-nearest-even, overflow to infinity, gradual underflow     *)
(* and NaN.  The sign of zero is not modelled (zero is +0.0).              *)
(***************************************************************************)
EXTENDS Integers, Sequences, FiniteSets, TLC

-----------------------------------------------------------------------------
(* Natural numbers of arbitrary width: <<l1, ..., ln>> is the sum of       *)
(* l_i * Base^(i-1), without leading zero limbs; <<>> is 0.                *)

Base == 2^15

Limb(a, i) == IF i <= Len(a) THEN a[i] ELSE 0

Zeros(k) == [i \in 1..k |-> 0]

RECURSIVE NNorm(_)
NNorm(a) ==
    IF a = <<>> THEN a
    ELSE IF a[Len(a)] = 0 THEN NNorm(SubSeq(a, 1, Len(a) - 1))
    ELSE a

RECURSIVE NOf(_)
NOf(n) == IF n = 0 THEN <<>> ELSE <<n % Base>> \o NOf(n \div Base)

RECURSIVE NAddC(_, _, _, _)
NAddC(a, b, i, c) ==
    IF i > Len(a) /\ i > Len(b)
    THEN (IF c = 0 THEN <<>> ELSE <<c>>)
    ELSE LET s == Limb(a, i) + Limb(b, i) + c
         IN  <<s % Base>> \o NAddC(a, b, i + 1, s \div Base)

NAdd(a, b) == NNorm(NAddC(a, b, 1, 0))

RECURSIVE NSubC(_, _, _, _)
NSubC(a, b, i, c) ==
    IF i > Len(a) THEN <<>>
    ELSE LET d == a[i] - Limb(b, i) - c
         IN  IF d < 0 THEN <<d + Base>> \o NSubC(a, b, i + 1, 1)
             ELSE <<d>> \o NSubC(a, b, i + 1, 0)

\* a - b for a >= b
NSub(a, b) == NNorm(NSubC(a, b, 1, 0))

RECURSIVE NCmpAt(_, _, _)
NCmpAt(a, b, i) ==
    IF i = 0 THEN 0
    ELSE IF a[i] # b[i] THEN (IF a[i] < b[i] THEN -1 ELSE 1)
    ELSE NCmpAt(a, b, i - 1)

\* -1, 0, 1 as a < b, a = b, a > b
NCmp(a, b) ==
    IF Len(a) # Len(b) THEN (IF Len(a) < Len(b) THEN -1 ELSE 1)
    ELSE NCmpAt(a, b, Len(a))

RECURSIVE NMulSmallC(_, _, _, _)
NMulSmallC(a, d, i, c) ==
    IF i > Len(a)
    THEN (IF c = 0 THEN <<>> ELSE <<c>>)
    ELSE LET p == a[i] * d + c
         IN  <<p % Base>> \o NMulSmallC(a, d, i + 1, p \div Base)

\* a * d for a limb d < Base
NMulSmall(a, d) == IF d = 0 THEN <<>> ELSE NMulSmallC(a, d, 1, 0)

RECURSIVE NMulAt(_, _, _)
NMulAt(a, b, i) ==
    IF i > Len(b) THEN <<>>
    ELSE NAdd(Zeros(i - 1) \o NMulSmall(a, b[i]), NMulAt(a, b, i + 1))

NMul(a, b) == NNorm(NMulAt(a, b, 1))

\* a * 2^k
NShl(a, k) ==
    IF a = <<>> THEN <<>>
    ELSE Zeros(k \div 15) \o NMulSmall(a, 2^(k % 15))

\* a \div 2^k
NShr(a, k) ==
    LET q == k \div 15
        r == k % 15
        n == Len(a) - q
    IN  IF n <= 0 THEN <<>>
        ELSE NNorm([i \in 1..n |->
                 (a[i + q] \div 2^r) + (Limb(a, i + q + 1) % 2^r) * 2^(15 - r)])

\* a % 2^k # 0
NSticky(a, k) ==
    \E i \in 1..Len(a) :
        \/ i <= k \div 15 /\ a[i] # 0
        \/ i = k \div 15 + 1 /\ a[i] % 2^(k % 15) # 0

\* bit k of a (bit 0 is the lowest)
NBit(a, k) == (Limb(a, k \div 15 + 1) \div 2^(k % 15)) % 2

LimbLen(x) == CHOOSE n \in 0..15 : x < 2^n /\ (n = 0 \/ 2^(n - 1) <= x)

\* number of significant bits of a
NBitLen(a) ==
    IF a = <<>> THEN 0 ELSE 15 * (Len(a) - 1) + LimbLen(a[Len(a)])

NPow2(k) == NShl(<<1>>, k)

\* floor(r * 2^(k+1) / d) for the r * 2^(k+1) the loop was entered with,
\* and whether the division left a remainder, for r < 2d; q collects the
\* quotient bits. The test on Len(q) never holds: it makes TLC evaluate q
\* at every step instead of at the end.
RECURSIVE NDivLoop(_, _, _, _)
NDivLoop(r, d, q, k) ==
    IF k < 0 \/ r = <<>> \/ Len(q) > 8
    THEN [q |-> NShl(q, k + 1), rem |-> r # <<>>]
    ELSE IF NCmp(r, d) >= 0
    THEN NDivLoop(NMulSmall(NSub(r, d), 2), d, NAdd(NMulSmall(q, 2), <<1>>), k - 1)
    ELSE NDivLoop(NMulSmall(r, 2), d, NMulSmall(q, 2), k - 1)

-----------------------------------------------------------------------------
(* IEEE-754 binary floating point.  A finite nonzero value is              *)
(* (-1)^s * m * 2^e with m of exactly 53 bits; f32 values are the subset   *)
(* that F32Round returns.                                                  *)

NaN == [k |-> "nan", s |-> 0, m |-> <<>>, e |-> 0]
Zero == [k |-> "zero", s |-> 0, m |-> <<>>, e |-> 0]
Inf(s) == [k |-> "inf", s |-> s, m |-> <<>>, e |-> 0]

\* the float of value m * 2^e for m # 0 of l bits: 53 or fewer, or more
\* with zeros below the 53rd
CanonL(s, m, e, l) ==
    [k |-> "fin", s |-> s,
     m |-> IF l <= 53 THEN NShl(m, 53 - l) ELSE NShr(m, l - 53),
     e |-> e - (53 - l)]

Canon(s, m, e) == CanonL(s, m, e, NBitLen(m))

\* m * 2^e as a float of a format whose values are below 2^emax
Pack(s, m, e, emax) ==
    IF m = <<>> THEN Zero
    ELSE IF NBitLen(m) + e > emax THEN Inf(s)
    ELSE Canon(s, m, e)

\* q = m \div 2^drop moved to the nearer neighbour, ties to even
RoundQ(m, q, sticky, drop) ==
    IF NBit(m, drop - 1) = 1
       /\ (sticky \/ NSticky(m, drop - 1) \/ NBit(q, 0) = 1)
    THEN NAdd(q, <<1>>)
    ELSE q

RoundAt(s, m, e, sticky, drop, emax) ==
    IF drop <= 0 THEN Pack(s, m, e, emax)
    ELSE Pack(s, RoundQ(m, NShr(m, drop), sticky, drop), e + drop, emax)

\* the low bits that a format of p bits, whose lowest bit has exponent
\* emin, cannot hold of an l-bit m * 2^e
Drop(l, e, p, emin) == IF l - p >= emin - e THEN l - p ELSE emin - e

\* (m + sticky) * 2^e rounded to nearest, ties to even, in a format of p
\* bits whose lowest bit has exponent emin and whose values are below 2^emax
Round(s, m, e, sticky, p, emin, emax) ==
    RoundAt(s, m, e, sticky, Drop(NBitLen(m), e, p, emin), emax)

Round64(s, m, e, sticky) == Round(s, m, e, sticky, 53, -1074, 1024)

FNeg(a) == IF a.k \in {"nan", "zero"} THEN a ELSE [a EXCEPT !.s = 1 - a.s]

\* sh * mh * 2^e + sl * ml * 2^e, with c the comparison of mh and ml
FAddAligned(sh, mh, sl, ml, e, c) ==
    Round64(IF sh = sl \/ c > 0 THEN sh ELSE sl,
            IF sh = sl THEN NAdd(mh, ml)
            ELSE IF c >= 0 THEN NSub(mh, ml) ELSE NSub(ml, mh),
            e, FALSE)

FAddShifted(sh, mh, lo) == FAddAligned(sh, mh, lo.s, lo.m, lo.e, NCmp(mh, lo.m))

\* hi + lo for hi.e >= lo.e; a term 2^64 times smaller does not count
FAddOrd(hi, lo) ==
    IF hi.e - lo.e > 64 THEN hi
    ELSE FAddShifted(hi.s, NShl(hi.m, hi.e - lo.e), lo)

FAddFin(a, b) == IF a.e >= b.e THEN FAddOrd(a, b) ELSE FAddOrd(b, a)

\* a + b
FAdd(a, b) ==
    IF a.k = "nan" \/ b.k = "nan" THEN NaN
    ELSE IF a.k = "inf" /\ b.k = "inf" THEN (IF a.s = b.s THEN a ELSE NaN)
    ELSE IF a.k = "inf" THEN a
    ELSE IF b.k = "inf" THEN b
    ELSE IF a.k = "zero" THEN b
    ELSE IF b.k = "zero" THEN a
    ELSE FAddFin(a, b)

\* a - b
FSub(a, b) == FAdd(a, FNeg(b))

\* a * b
FMul(a, b) ==
    IF a.k = "nan" \/ b.k = "nan" THEN NaN
    ELSE IF a.k = "inf" \/ b.k = "inf"
         THEN (IF a.k = "zero" \/ b.k = "zero" THEN NaN ELSE Inf((a.s + b.s) % 2))
    ELSE IF a.k = "zero" \/ b.k = "zero" THEN Zero
    ELSE Round64((a.s + b.s) % 2, NMul(a.m, b.m), a.e + b.e, FALSE)

FDivQ(s, d, e) == Round64(s, d.q, e, d.rem)

\* a / b
FDiv(a, b) ==
    IF a.k = "nan" \/ b.k = "nan" THEN NaN
    ELSE IF a.k = "inf" THEN (IF b.k = "inf" THEN NaN ELSE Inf((a.s + b.s) % 2))
    ELSE IF b.k = "inf" THEN Zero
    ELSE IF b.k = "zero" THEN (IF a.k = "zero" THEN NaN ELSE Inf((a.s + b.s) % 2))
    ELSE IF a.k = "zero" THEN Zero
    ELSE FDivQ((a.s + b.s) % 2, NDivLoop(a.m, b.m, <<>>, 55), a.e - b.e - 55)

\* -1, 0, 1 as a < b, a = b, a > b, for a and b not NaN
FCmpMag(a, b) ==
    IF a.k = "inf" \/ b.k = "inf"
    THEN (IF a.k = b.k THEN 0 ELSE IF a.k = "inf" THEN 1 ELSE -1)
    ELSE IF a.e # b.e THEN (IF a.e < b.e THEN -1 ELSE 1)
    ELSE NCmp(a.m, b.m)

FSign(a) == IF a.k = "zero" THEN 0 ELSE IF a.s = 1 THEN -1 ELSE 1

FCmp(a, b) ==
    IF FSign(a) # FSign(b) THEN (IF FSign(a) < FSign(b) THEN -1 ELSE 1)
    ELSE IF FSign(a) = 0 THEN 0
    ELSE IF FSign(a) > 0 THEN FCmpMag(a, b)
    ELSE FCmpMag(b, a)

\* f64::min and f64::max: a NaN argument yields the other argument
FMin(a, b) ==
    IF a.k = "nan" THEN b
    ELSE IF b.k = "nan" THEN a
    ELSE IF FCmp(a, b) <= 0 THEN a ELSE b

FMax(a, b) ==
    IF a.k = "nan" THEN b
    ELSE IF b.k = "nan" THEN a
    ELSE IF FCmp(a, b) >= 0 THEN a ELSE b

\* a <= b as the comparison of Rust: false when either is NaN
FLe(a, b) == a.k # "nan" /\ b.k # "nan" /\ FCmp(a, b) <= 0

FLt(a, b) == a.k # "nan" /\ b.k # "nan" /\ FCmp(a, b) < 0

FIsFinite(a) == a.k \in {"zero", "fin"}

\* `n as f64` for an unsigned integer n
UToF64(n) == IF n = <<>> THEN Zero ELSE Round64(0, n, 0, FALSE)

\* `x as uW` for an unsigned type of w bits: truncation toward zero,
\* saturating at the ends of the type, NaN to 0
F64ToU(x, w) ==
    IF x.k \in {"nan", "zero"} \/ x.s = 1 THEN <<>>
    ELSE IF x.k = "inf" \/ x.e + 53 > w THEN NSub(NPow2(w), <<1>>)
    ELSE IF x.e >= 0 THEN NShl(x.m, x.e)
    ELSE NShr(x.m, 0 - x.e)

\* `x as f32`
F32Round(x) ==
    IF x.k = "fin" THEN Round(x.s, x.m, x.e, FALSE, 24, -149, 128) ELSE x

\* the f64 of the small integer ratio n / d
FRatio(n, d) == FDiv(UToF64(NOf(n)), UToF64(NOf(d)))

One == UToF64(<<1>>)
Two == UToF64(<<2>>)

-----------------------------------------------------------------------------
(* trait Component and its implementations (color.rs lines 19-52).  A      *)
(* component of f32 storage is a float record; a component of unsigned     *)
(* integer storage is a natural number.                                    *)

PtrBits == 64

Types == {"f32", "u8", "u16", "u32", "u64", "usize"}

\* width in bits of an unsigned integer storage type
Bits(ty) ==
    CASE ty = "u8" -> 8
      [] ty = "u16" -> 16
      [] ty = "u32" -> 32
      [] ty = "u64" -> 64
      [] ty = "usize" -> PtrBits

\* <$type>::MAX
MAX(ty) == NSub(NPow2(Bits(ty)), <<1>>)

\* a to_f64 that forgets to divide by MAX
to_f64_unscaled(ty, self) ==
    IF ty = "f32" THEN self ELSE UToF64(self)

to_f64(ty, self) ==
    IF ty = "f32" THEN self
    ELSE FDiv(UToF64(self), UToF64(MAX(ty)))

\* a from_f64 that forgets to multiply by MAX
from_f64_unscaled(ty, x) ==
    IF ty = "f32" THEN F32Round(x) ELSE F64ToU(x, Bits(ty))

from_f64(ty, x) ==
    IF ty = "f32" THEN F32Round(x)
    ELSE F64ToU(FMul(x, UToF64(MAX(ty))), Bits(ty))

-----------------------------------------------------------------------------
(* impl Ryb (color.rs lines 54-143) and mix (lines 145-148).               *)

WHITE == <<Zero, Zero, Zero>>

\* Ryb::new
new(v) == v

Min3(t) == FMin(FMin(t[1], t[2]), t[3])

Max3(t) == FMax(FMax(t[1], t[2]), t[3])

\* the normalized components: lines 74-76 and 111-113
Normalized(ty, c) == <<to_f64(ty, c[1]), to_f64(ty, c[2]), to_f64(ty, c[3])>>

\* the components less the white i_w: lines 80-82 and 117-119
Dewhitened(t, i_w) == <<FSub(t[1], i_w), FSub(t[2], i_w), FSub(t[3], i_w)>>

\* the channels divided by n: lines 90-92 and 127-129
Rescaled(t, n) == <<FDiv(t[1], n), FDiv(t[2], n), FDiv(t[3], n)>>

\* the channels plus the black i_b: lines 96-98 and 133-135
Blackened(t, i_b) == <<FAdd(t[1], i_b), FAdd(t[2], i_b), FAdd(t[3], i_b)>>

\* the local variables of a conversion, as the state keeps them
Locals(op, in0, dewhite, n, scaled, i_b) ==
    [op |-> op, in0 |-> in0, dewhite |-> dewhite, n |-> n, scaled |-> scaled,
     i_b |-> i_b, out0 |-> Blackened(scaled, i_b)]

(* Ryb::new_rgb, a step of the source at a time; each operator takes the   *)
(* locals computed so far: in0 = <<r0_rgb, g0_rgb, b0_rgb>>,               *)
(* rgb = <<r_rgb, g_rgb, b_rgb>>, ryb = <<r_ryb, y_ryb, b_ryb>>.           *)

\* line 94: i_b, and lines 90-98
new_rgb_n(in0, rgb, ryb, n) ==
    Locals("new_rgb", in0, rgb, n, Rescaled(ryb, n),
           Min3(<<FSub(One, in0[1]), FSub(One, in0[2]), FSub(One, in0[3])>>))

\* a line 88 that guards the division: n = 1 when the peak is zero
new_rgb_ryb_guarded(in0, rgb, ryb) ==
    new_rgb_n(in0, rgb, ryb,
              IF Max3(rgb) = Zero THEN One ELSE FDiv(Max3(ryb), Max3(rgb)))

\* a line 88 with the quotient the other way up
new_rgb_ryb_inverted(in0, rgb, ryb) ==
    new_rgb_n(in0, rgb, ryb, FDiv(Max3(rgb), Max3(ryb)))

\* line 88: n
new_rgb_ryb(in0, rgb, ryb) == new_rgb_n(in0, rgb, ryb, FDiv(Max3(ryb), Max3(rgb)))

\* lines 84-86: r_ryb, y_ryb, b_ryb, with m = f64::min(r_rgb, g_rgb)
new_rgb_min(in0, rgb, m) ==
    new_rgb_ryb(in0, rgb,
                <<FSub(rgb[1], m),
                  FDiv(FAdd(rgb[2], m), Two),
                  FDiv(FSub(FAdd(rgb[3], rgb[2]), m), Two)>>)

new_rgb_dewhite(in0, rgb) == new_rgb_min(in0, rgb, FMin(rgb[1], rgb[2]))

\* line 78: i_w
new_rgb_in(in0) == new_rgb_dewhite(in0, Dewhitened(in0, Min3(in0)))

new_rgb_locals(ty, c) == new_rgb_in(Normalized(ty, c))

(* Ryb::rgb likewise: in0 = <<r0_ryb, y0_ryb, b0_ryb>>,                    *)
(* ryb = <<r_ryb, y_ryb, b_ryb>>, rgb = <<r_rgb, g_rgb, b_rgb>>.           *)

\* line 131: i_b, which reads the de-whitened b_ryb, and lines 127-135
rgb_n(in0, ryb, rgb, n) ==
    Locals("rgb", in0, ryb, n, Rescaled(rgb, n),
           Min3(<<FSub(One, in0[1]), FSub(One, in0[2]), FSub(One, ryb[3])>>))

\* line 125: n
rgb_rgb(in0, ryb, rgb) == rgb_n(in0, ryb, rgb, FDiv(Max3(ryb), Max3(rgb)))

\* lines 121-123: r_rgb, g_rgb, b_rgb, with m = f64::min(y_ryb, b_ryb)
rgb_min(in0, ryb, m) ==
    rgb_rgb(in0, ryb,
            <<FSub(FAdd(ryb[1], ryb[2]), m),
              FAdd(ryb[2], FMul(Two, m)),
              FMul(Two, FSub(ryb[3], m))>>)

rgb_dewhite(in0, ryb) == rgb_min(in0, ryb, FMin(ryb[2], ryb[3]))

\* line 115: i_w
rgb_in(in0) == rgb_dewhite(in0, Dewhitened(in0, Min3(in0)))

rgb_locals(ty, c) == rgb_in(Normalized(ty, c))

\* the value a conversion returns: each normalized channel through from_f64
Stored(ty, l) ==
    <<from_f64(ty, l.out0[1]), from_f64(ty, l.out0[2]), from_f64(ty, l.out0[3])>>

\* Ryb::new_rgb
new_rgb(ty, c) == Stored(ty, new_rgb_locals(ty, c))

\* Ryb::rgb
rgb(ty, c) == Stored(ty, rgb_locals(ty, c))


\* mix: the body is todo!(), which panics whatever the collection holds
mix(_colors) == [panicked |-> TRUE]

-----------------------------------------------------------------------------
(* Bounds of the model and the inputs drawn within them.                   *)

\* components are drawn from the grid k / GridDen of the storage type
GridDen == 4
\* operations applied to one color
MaxSteps == 3
\* length of the collection handed to mix
MaxMix == 2
\* component values are also drawn 2^j - 1, 2^j and 2^j + 1 away from the
\* middle and the ends of an integer type, for j up to OffBits
OffBits == 10

RECURSIVE NDivSmallAt(_, _, _, _)
NDivSmallAt(a, d, i, rem) ==
    IF i = 0 THEN <<>>
    ELSE LET c == rem * Base + a[i]
         IN  NDivSmallAt(a, d, i - 1, c % d) \o <<c \div d>>

\* a \div d for 0 < d < Base
NDivSmall(a, d) == NNorm(NDivSmallAt(a, d, Len(a), 0))

\* k / GridDen of the range of an integer type, rounded down
IntGrid(ty) == {NDivSmall(NMulSmall(MAX(ty), k), GridDen) : k \in 0..GridDen}

\* the f32 values (k as f64 / GridDen as f64) as f32
FloatGrid == {F32Round(FRatio(k, GridDen)) : k \in 0..GridDen}

Values(ty) == IF ty = "f32" THEN FloatGrid ELSE IntGrid(ty)

Offsets ==
    UNION {{NSub(NPow2(j), <<1>>), NPow2(j), NAdd(NPow2(j), <<1>>)} : j \in 0..OffBits}

\* values near the middle and the ends of an integer type
IntEdges(ty) ==
    LET mid == NPow2(Bits(ty) - 1)
        all == {<<>>} \cup {MAX(ty)}
                 \cup {NAdd(mid, o) : o \in Offsets}
                 \cup {NSub(mid, o) : o \in {p \in Offsets : NCmp(p, mid) <= 0}}
                 \cup {NSub(MAX(ty), o) : o \in {p \in Offsets : NCmp(p, MAX(ty)) <= 0}}
    IN  {v \in all : NCmp(v, MAX(ty)) <= 0}

\* f32 values off the grid: 1/3, -1/3, the least subnormal, f32::MAX, infinity
FloatEdges ==
    {F32Round(FRatio(1, 3)), FNeg(F32Round(FRatio(1, 3))), Canon(0, <<1>>, -149),
     Canon(0, NSub(NPow2(24), <<1>>), 104), Inf(0)}

CompValues(ty) ==
    IF ty = "f32" THEN FloatGrid \cup FloatEdges ELSE IntGrid(ty) \cup IntEdges(ty)

-----------------------------------------------------------------------------
(* State.                                                                  *)

VARIABLES
    ty,      \* the storage type T
    space,   \* "raw": an array [T; 3]; "rgb": an Rgb<T>; "ryb": a Ryb<T>
    orig,    \* the components the run started from
    cur,     \* the components of the current value
    trail,   \* the operations applied so far
    status,  \* "ok", or "panicked" once an operation has aborted
    last,    \* the local variables of the last conversion
    comp     \* one component on its way through to_f64 and from_f64

vars == <<ty, space, orig, cur, trail, status, last, comp>>

Triple(x) == <<x, x, x>>

NoCall ==
    [op |-> "none", in0 |-> Triple(Zero), dewhite |-> Triple(Zero), n |-> Zero,
     scaled |-> Triple(Zero), i_b |-> Zero, out0 |-> Triple(Zero)]

Idle == [pc |-> "idle", v |-> <<>>, x |-> Zero, back |-> <<>>]

Init ==
    /\ ty \in Types
    /\ space \in {"raw", "rgb"}
    /\ orig \in Values(ty) \X Values(ty) \X Values(ty)
    /\ cur = orig
    /\ trail = <<>>
    /\ status = "ok"
    /\ last = NoCall
    /\ comp = Idle

\* Ryb::new(v)
New ==
    /\ status = "ok" /\ space = "raw" /\ Len(trail) < MaxSteps
    /\ cur' = new(cur)
    /\ space' = "ryb"
    /\ trail' = Append(trail, "new")
    /\ last' = NoCall
    /\ UNCHANGED <<ty, orig, status, comp>>

\* Ryb::new_rgb(Rgb(cur)): cur' is new_rgb(ty, cur), computed once
NewRgb ==
    /\ status = "ok" /\ space = "rgb" /\ Len(trail) < MaxSteps
    /\ last' = new_rgb_locals(ty, cur)
    /\ cur' = Stored(ty, last')
    /\ space' = "ryb"
    /\ trail' = Append(trail, "new_rgb")
    /\ UNCHANGED <<ty, orig, status, comp>>

\* Ryb(cur).rgb(): cur' is rgb(ty, cur), computed once
Rgb ==
    /\ status = "ok" /\ space = "ryb" /\ Len(trail) < MaxSteps
    /\ last' = rgb_locals(ty, cur)
    /\ cur' = Stored(ty, last')
    /\ space' = "rgb"
    /\ trail' = Append(trail, "rgb")
    /\ UNCHANGED <<ty, orig, status, comp>>

\* mix(vec![(w, Ryb(cur)); len]): the call panics and returns nothing
Mix ==
    /\ status = "ok" /\ space = "ryb" /\ Len(trail) < MaxSteps
    /\ \E len \in 0..MaxMix :
          status' = IF mix([i \in 1..len |-> <<cur[1], cur>>]).panicked
                    THEN "panicked" ELSE "ok"
    /\ trail' = Append(trail, "mix")
    /\ UNCHANGED <<ty, space, orig, cur, last, comp>>

Next == New \/ NewRgb \/ Rgb \/ Mix

Spec == Init /\ [][Next]_vars

(* One component through Component::to_f64 and back through from_f64.      *)

InitComp ==
    /\ ty \in Types
    /\ comp \in {[pc |-> "start", v |-> v, x |-> Zero, back |-> v] : v \in CompValues(ty)}
    /\ space = "none"
    /\ orig = <<>>
    /\ cur = <<>>
    /\ trail = <<>>
    /\ status = "ok"
    /\ last = NoCall

ToF64 ==
    /\ comp.pc = "start"
    /\ comp' = [comp EXCEPT !.pc = "normalized", !.x = to_f64(ty, comp.v)]
    /\ UNCHANGED <<ty, space, orig, cur, trail, status, last>>

FromF64 ==
    /\ comp.pc = "normalized"
    /\ comp' = [comp EXCEPT !.pc = "restored", !.back = from_f64(ty, comp.x)]
    /\ UNCHANGED <<ty, space, orig, cur, trail, status, last>>

NextComp == ToF64 \/ FromF64

SpecComp == InitComp /\ [][NextComp]_vars


-----------------------------------------------------------------------------
(* Properties.                                                             *)

FAbs(a) == IF a.k \in {"fin", "inf"} THEN [a EXCEPT !.s = 0] ELSE a

\* the f64 1e-6
Tol == FRatio(1, 1000000)

\* |a - b| <= 1e-6, as an f64 comparison
Close(a, b) == FLe(FAbs(FSub(a, b)), Tol)

\* |a - b| <= 2^-51, as an f64 comparison
WithinRounding(a, b) == FLe(FAbs(FSub(a, b)), Canon(0, <<1>>, -51))

InOpenUnit3(t) == \A i \in 1..3 : FLt(Zero, t[i]) /\ FLt(t[i], One)

InUnit3(t) == \A i \in 1..3 : FLe(Zero, t[i]) /\ FLe(t[i], One)

AllEqual(t) == t[1] = t[2] /\ t[2] = t[3]

Finite3(t) == \A i \in 1..3 : FIsFinite(t[i])

NAbsDiff(a, b) == IF NCmp(a, b) >= 0 THEN NSub(a, b) ELSE NSub(b, a)

\* |a - b| <= d for unsigned integers
NWithin(a, b, d) == NCmp(NAbsDiff(a, b), d) <= 0

\* the state right after a conversion returned
JustConverted == trail # <<>> /\ trail[Len(trail)] = last.op

\* C1: with f32 storage, an RGB triple strictly inside (0,1), not all
\* channels equal, converted by new_rgb and back by rgb is the triple it
\* was, channel by channel, within 1e-6
C1_RoundTripRgb ==
    (ty = "f32" /\ trail = <<"new_rgb", "rgb">>
        /\ InOpenUnit3(orig) /\ ~AllEqual(orig))
    => \A i \in 1..3 : Close(cur[i], orig[i])

\* C2: with f32 storage, an RYB triple strictly inside (0,1), not all
\* channels equal, converted by rgb and back by new_rgb is the triple it
\* was, channel by channel, within 1e-6
C2_RoundTripRyb ==
    (ty = "f32" /\ trail = <<"new", "rgb", "new_rgb">>
        /\ InOpenUnit3(orig) /\ ~AllEqual(orig))
    => \A i \in 1..3 : Close(cur[i], orig[i])

\* C3: rgb() of the RYB constant WHITE is RGB white, all channels 1.0
C3_WhiteToRgb ==
    (ty = "f32" /\ orig = WHITE /\ trail = <<"new", "rgb">>)
    => cur = Triple(One)

\* C4: new_rgb of RGB white (1.0, 1.0, 1.0) is a finite RYB triple of
\* three equal channels, each the white representation 0.0 within 1e-6
C4_WhiteToRyb ==
    (ty = "f32" /\ orig = Triple(One) /\ trail = <<"new_rgb">>)
    => Finite3(cur) /\ AllEqual(cur) /\ \A i \in 1..3 : Close(cur[i], Zero)

\* C5: with floating storage, a conversion (new_rgb or rgb) of a finite
\* triple whose three channels are equal returns, without aborting, a
\* triple with a channel that is NaN or infinite
C5_DegenerateNonFinite ==
    (ty = "f32" /\ JustConverted /\ Finite3(last.in0) /\ AllEqual(last.in0))
    => status = "ok" /\ \E i \in 1..3 : ~FIsFinite(cur[i])

C5_Witness ==
    /\ ty = "f32" /\ JustConverted /\ status = "ok"
    /\ last.op = "new_rgb" /\ last.in0 = Triple(Zero)
    /\ cur = Triple(NaN)

\* C6 as stated: from_f64(to_f64(v)) is v for f32 storage and within 1
\* unit of v for every unsigned integer storage type
C6_RoundTripWithinOne ==
    comp.pc = "restored"
    => IF ty = "f32" THEN comp.back = comp.v
       ELSE NWithin(comp.back, comp.v, <<1>>)

\* what f64 loses of an integer of w bits: nothing that truncation shows
\* up to 32 bits, half a unit of the 53rd bit for 64
Slack(w) == IF w <= 32 THEN <<1>> ELSE NPow2(w - 54)

\* C6 as amended: from_f64(to_f64(v)) is v for f32 storage, within 1 unit
\* of v for u8, u16 and u32, and within 2^10 units of v for u64 and a
\* 64-bit usize
C6_RoundTripWithinSlack ==
    comp.pc = "restored"
    => IF ty = "f32" THEN comp.back = comp.v
       ELSE NWithin(comp.back, comp.v, Slack(Bits(ty)))

C6_Witness ==
    /\ comp.pc = "restored" /\ ty = "u64"
    /\ NAbsDiff(comp.back, comp.v) = NPow2(10)

\* C7: the u8 RGB triple (255, 0, 0) converted by new_rgb and back by rgb
\* is within 1 of (255, 0, 0) in every channel
C7_U8Red ==
    (ty = "u8" /\ orig = <<NOf(255), <<>>, <<>>>> /\ trail = <<"new_rgb", "rgb">>)
    => \A i \in 1..3 : NWithin(cur[i], orig[i], <<1>>)

C7_Witness ==
    /\ ty = "u8" /\ orig = <<NOf(255), <<>>, <<>>>> /\ trail = <<"new_rgb", "rgb">>
    /\ cur = orig

\* C8: no operation (new, new_rgb, rgb, mix) aborts
C8_NoAbort == status = "ok"

\* C9 as stated: in new_rgb of an RGB triple in [0,1]^3 whose channels are
\* not all equal, the largest channel after the division by n equals the
\* largest de-whitened RGB channel
C9_PeakEqual ==
    (JustConverted /\ last.op = "new_rgb"
        /\ InUnit3(last.in0) /\ ~AllEqual(last.in0))
    => Max3(last.scaled) = Max3(last.dewhite)

\* C9 as amended: the two are equal up to the rounding of the two f64
\* divisions (within 2^-51), and so are the largest final channel and
\* max(r, g, b) + i_b
C9_PeakWithinRounding ==
    (JustConverted /\ last.op = "new_rgb"
        /\ InUnit3(last.in0) /\ ~AllEqual(last.in0))
    => /\ WithinRounding(Max3(last.scaled), Max3(last.dewhite))
       /\ WithinRounding(Max3(last.out0), FAdd(Max3(last.dewhite), last.i_b))

C9_Witness ==
    /\ JustConverted /\ last.op = "new_rgb"
    /\ InUnit3(last.in0) /\ ~AllEqual(last.in0)
    /\ last.n # One
    /\ Max3(last.scaled) # Max3(last.dewhite)

\* C10: in rgb() of an RYB triple in [0,1]^3 whose channels are not all
\* equal, every channel handed to from_f64 lies in [0,1]
C10_RgbInUnit ==
    (JustConverted /\ last.op = "rgb"
        /\ InUnit3(last.in0) /\ ~AllEqual(last.in0))
    => InUnit3(last.out0)

=============================================================================
